---- MODULE Spec2Model ----
(***************************************************************************)
(* A model of basic_tar: the classic tar header codec (src/header) and the *)
(* resumable stream helpers (src/helpers.rs).                              *)
(*                                                                         *)
(* Bytes are naturals 0..255, byte strings and blocks are sequences of     *)
(* bytes.  A `String` is the sequence of its UTF-8 bytes.  `Option<T>` is  *)
(* the empty sequence (None) or a one-element sequence (Some).  A `u64` is *)
(* four 16-bit limbs, least significant first, so that the octal           *)
(* conversions are computed digit by digit as the code's formatting and    *)
(* parsing do.  A `Result` is a record with the fields ok, val and err.    *)
(***************************************************************************)
EXTENDS Integers, Sequences, FiniteSets, TLC

\* ------------------------------------------------------------------------
\* Generic helpers
\* ------------------------------------------------------------------------

Min(a, b) == IF a < b THEN a ELSE b

Max(a, b) == IF a > b THEN a ELSE b

Repeat(b, n) == [i \in 1..n |-> b]

Take(s, n) == SubSeq(s, 1, Min(n, Len(s)))

Drop(s, n) == SubSeq(s, n + 1, Len(s))

RECURSIVE SumRange(_, _, _)
SumRange(s, lo, hi) ==
    IF lo > hi THEN 0
    ELSE IF lo = hi THEN s[lo]
    ELSE LET mid == (lo + hi) \div 2
         IN  SumRange(s, lo, mid) + SumRange(s, mid + 1, hi)

SumSeq(s) == SumRange(s, 1, Len(s))

\* The first index (1-based) of byte b in s, or Len(s) + 1 when s has none:
\* `iter().position(..).unwrap_or(len)`, shifted by one.
Position(s, b) ==
    IF \E i \in 1..Len(s) : s[i] = b
    THEN CHOOSE i \in 1..Len(s) : s[i] = b /\ \A j \in 1..(i - 1) : s[j] # b
    ELSE Len(s) + 1

\* ------------------------------------------------------------------------
\* Results and errors (src/src/lib.rs)
\* ------------------------------------------------------------------------

NoError == <<>>

Ok(v) == [ok |-> TRUE, val |-> v, err |-> NoError]

Err(e) == [ok |-> FALSE, val |-> <<>>, err |-> e]

ApiMisuse(msg) == <<"ApiMisuse", msg>>

InvalidData(msg) == <<"InvalidData", msg>>

Unsupported(msg) == <<"Unsupported", msg>>

EmptyHeader == <<"EmptyHeader">>

\* The message of the source, without the quotes it puts around the word field.
FieldTooSmall == ApiMisuse("field is too small to hold the value")

RequiredFieldEmpty == InvalidData("Required field is empty")

InvalidOctal == InvalidData("Invalid octal number")

InvalidChecksum == InvalidData("Invalid header checksum")

NotUtf8 == Unsupported("Header field is not UTF-8")

None == <<>>

Some(v) == <<v>>

\* ------------------------------------------------------------------------
\* u64 as four 16-bit limbs
\* ------------------------------------------------------------------------

LimbBase == 2^16

U64Zero == <<0, 0, 0, 0>>

U64Max == <<LimbBase - 1, LimbBase - 1, LimbBase - 1, LimbBase - 1>>

\* A natural below 2^31 as a u64.
U64FromNat(n) == <<n % LimbBase, n \div LimbBase, 0, 0>>

\* A u64 below 2^31 as a natural (`usize::try_from` on the values used here).
U64ToNat(v) == v[1] + v[2] * LimbBase

U64Less(a, b) ==
    \E i \in 1..4 : a[i] < b[i] /\ \A j \in (i + 1)..4 : a[j] = b[j]

\* v * m + d for small m and d, with the carry out of 64 bits.
U64MulAdd(v, m, d) ==
    LET c1 == v[1] * m + d
        c2 == v[2] * m + (c1 \div LimbBase)
        c3 == v[3] * m + (c2 \div LimbBase)
        c4 == v[4] * m + (c3 \div LimbBase)
    IN  [val |-> <<c1 % LimbBase, c2 % LimbBase, c3 % LimbBase, c4 % LimbBase>>,
         carry |-> c4 \div LimbBase]

\* v divided by 8, and the remainder: long division from the top limb.
U64DivMod8(v) ==
    LET c4 == v[4]
        c3 == (c4 % 8) * LimbBase + v[3]
        c2 == (c3 % 8) * LimbBase + v[2]
        c1 == (c2 % 8) * LimbBase + v[1]
    IN  [quot |-> <<c1 \div 8, c2 \div 8, c3 \div 8, c4 \div 8>>, rem |-> c1 % 8]

\* 8^k as a u64, for k <= 21.
RECURSIVE U64Pow8(_)
U64Pow8(k) == IF k = 0 THEN U64FromNat(1) ELSE U64MulAdd(U64Pow8(k - 1), 8, 0).val

\* v - 1 for v > 0.
U64Pred(v) ==
    LET i == CHOOSE i \in 1..4 : v[i] > 0 /\ \A j \in 1..(i - 1) : v[j] = 0
    IN  [j \in 1..4 |-> IF j < i THEN LimbBase - 1 ELSE IF j = i THEN v[j] - 1 ELSE v[j]]

\* `format!("{:o}", num)`: the minimal octal digits of num, as ASCII bytes.
RECURSIVE FormatOctalDigits(_)
FormatOctalDigits(v) ==
    IF v = U64Zero THEN <<>>
    ELSE LET dm == U64DivMod8(v)
         IN  Append(FormatOctalDigits(dm.quot), 48 + dm.rem)

FormatOctal(v) == IF v = U64Zero THEN <<48>> ELSE FormatOctalDigits(v)

\* `u64::from_str_radix(s, 8)`: an optional leading '+', then octal digits only;
\* empty input, a lone sign, any other byte, or overflow is an error.
RECURSIVE ParseOctalDigits(_, _, _)
ParseOctalDigits(s, i, acc) ==
    IF i > Len(s) THEN Ok(acc)
    ELSE IF s[i] < 48 \/ s[i] > 55 THEN Err("InvalidDigit")
    ELSE LET r == U64MulAdd(acc, 8, s[i] - 48)
         IN  IF r.carry # 0 THEN Err("PosOverflow")
             ELSE ParseOctalDigits(s, i + 1, r.val)

from_str_radix8(s) ==
    IF Len(s) = 0 THEN Err("Empty")
    ELSE IF Len(s) = 1 /\ s[1] \in {43, 45} THEN Err("InvalidDigit")
    ELSE IF s[1] = 43 THEN ParseOctalDigits(s, 2, U64Zero)
    ELSE ParseOctalDigits(s, 1, U64Zero)

\* ------------------------------------------------------------------------
\* UTF-8 (`String::from_utf8`) and whitespace (`str::trim_end`)
\* ------------------------------------------------------------------------

IsCont(s, i) == i <= Len(s) /\ s[i] >= 128 /\ s[i] <= 191

InRange(s, i, lo, hi) == i <= Len(s) /\ s[i] >= lo /\ s[i] <= hi

\* The byte length of the well-formed UTF-8 sequence starting at s[i], or 0.
Utf8CharLen(s, i) ==
    LET b == s[i] IN
    IF b <= 127 THEN 1
    ELSE IF b >= 194 /\ b <= 223 THEN (IF IsCont(s, i + 1) THEN 2 ELSE 0)
    ELSE IF b = 224 THEN (IF InRange(s, i + 1, 160, 191) /\ IsCont(s, i + 2) THEN 3 ELSE 0)
    ELSE IF b = 237 THEN (IF InRange(s, i + 1, 128, 159) /\ IsCont(s, i + 2) THEN 3 ELSE 0)
    ELSE IF b >= 225 /\ b <= 239 THEN (IF IsCont(s, i + 1) /\ IsCont(s, i + 2) THEN 3 ELSE 0)
    ELSE IF b = 240
         THEN (IF InRange(s, i + 1, 144, 191) /\ IsCont(s, i + 2) /\ IsCont(s, i + 3) THEN 4 ELSE 0)
    ELSE IF b >= 241 /\ b <= 243
         THEN (IF IsCont(s, i + 1) /\ IsCont(s, i + 2) /\ IsCont(s, i + 3) THEN 4 ELSE 0)
    ELSE IF b = 244
         THEN (IF InRange(s, i + 1, 128, 143) /\ IsCont(s, i + 2) /\ IsCont(s, i + 3) THEN 4 ELSE 0)
    ELSE 0

RECURSIVE IsUtf8From(_, _)
IsUtf8From(s, i) ==
    IF i > Len(s) THEN TRUE
    ELSE LET n == Utf8CharLen(s, i)
         IN  n # 0 /\ IsUtf8From(s, i + n)

IsUtf8(s) == IsUtf8From(s, 1)

\* The byte length of the White_Space character that ends the UTF-8 string s, or 0.
TrailingWhitespaceLen(s) ==
    LET n == Len(s) IN
    IF n >= 1 /\ s[n] \in ((9..13) \cup {32}) THEN 1
    ELSE IF n >= 2 /\ s[n - 1] = 194 /\ s[n] \in {133, 160} THEN 2
    ELSE IF n >= 3 /\ s[n - 2] = 225 /\ s[n - 1] = 154 /\ s[n] = 128 THEN 3
    ELSE IF n >= 3 /\ s[n - 2] = 226 /\ s[n - 1] = 128
                   /\ s[n] \in ((128..138) \cup {168, 169, 175}) THEN 3
    ELSE IF n >= 3 /\ s[n - 2] = 226 /\ s[n - 1] = 129 /\ s[n] = 159 THEN 3
    ELSE IF n >= 3 /\ s[n - 2] = 227 /\ s[n - 1] = 128 /\ s[n] = 128 THEN 3
    ELSE 0

RECURSIVE trim_end(_)
trim_end(s) ==
    LET w == TrailingWhitespaceLen(s)
    IN  IF w = 0 THEN s ELSE trim_end(SubSeq(s, 1, Len(s) - w))

\* ------------------------------------------------------------------------
\* The raw block and the raw header struct (src/src/header/raw.rs)
\* ------------------------------------------------------------------------

BLOCK_LEN == 512

\* `raw::header::raw()`: the all-zero block.
raw_header_raw == Repeat(0, BLOCK_LEN)

\* `From<Raw> for Header`: the packed struct read over the block, field by field.
raw_header_from(raw) ==
    [name     |-> SubSeq(raw, 1, 100),
     mode     |-> SubSeq(raw, 101, 108),
     uid      |-> SubSeq(raw, 109, 116),
     gid      |-> SubSeq(raw, 117, 124),
     size     |-> SubSeq(raw, 125, 136),
     mtime    |-> SubSeq(raw, 137, 148),
     checksum |-> SubSeq(raw, 149, 156),
     typeflag |-> SubSeq(raw, 157, 157),
     linkname |-> SubSeq(raw, 158, 257),
     extra    |-> SubSeq(raw, 258, 500),
     pad      |-> SubSeq(raw, 501, 512)]

\* `Into<Raw> for Header`: the fields laid out in declaration order.
raw_header_into(tar) ==
    tar.name \o tar.mode \o tar.uid \o tar.gid \o tar.size \o tar.mtime
        \o tar.checksum \o tar.typeflag \o tar.linkname \o tar.extra \o tar.pad

\* `raw::header::header()`: the all-zero header struct.
raw_header_header == raw_header_from(raw_header_raw)

\* ------------------------------------------------------------------------
\* String fields (impl StringExt for Option<String> / String)
\* ------------------------------------------------------------------------

\* The `?` operator: the error of r, or the rest of the function applied to its value.
AndThen(r, Rest(_)) == IF r.ok THEN Rest(r.val) ELSE Err(r.err)

\* `.ok_or(InvalidData("Required field is empty"))`
OkOrRequired(opt) == IF opt = None THEN Err(RequiredFieldEmpty) ELSE Ok(opt[1])

\* Option<String>::from_field, after the field is cut at its first NUL.
OptString_from_data(data) ==
    IF Len(data) = 0 THEN Ok(None)
    ELSE IF ~IsUtf8(data) THEN Err(NotUtf8)
    ELSE Ok(Some(data))

\* Option<String>::from_field
OptString_from_field(field) ==
    OptString_from_data(SubSeq(field, 1, Position(field, 0) - 1))

\* Mutant of Option<String>::into_field: no length test, the value is cut to the field.
OptString_into_field_Truncating(self, field) ==
    Ok([i \in 1..Len(field) |->
           IF self # None /\ i <= Len(self[1]) THEN self[1][i] ELSE 0])

\* Option<String>::into_field: the new content of `field`, or the error.
OptString_into_field(self, field) ==
    IF Len(field) < (IF self = None THEN 0 ELSE Len(self[1]))
    THEN Err(FieldTooSmall)
    ELSE Ok([i \in 1..Len(field) |->
                IF self # None /\ i <= Len(self[1]) THEN self[1][i] ELSE 0])

\* Option<String>::from_terminated_field
OptString_from_terminated_field(field) ==
    OptString_from_field(SubSeq(field, 1, Position(field, 32) - 1))

\* Option<String>::into_terminated_field
OptString_into_terminated_field(self, field) ==
    IF Len(field) = 0 THEN Err(FieldTooSmall)
    ELSE AndThen(OptString_into_field(self, SubSeq(field, 1, Len(field) - 1)),
                 LAMBDA head : Ok(Append(head, 0)))

\* String::from_field
String_from_field(field) == AndThen(OptString_from_field(field), OkOrRequired)

\* String::into_field
String_into_field(self, field) == OptString_into_field(Some(self), field)

\* String::into_terminated_field
String_into_terminated_field(self, field) ==
    OptString_into_terminated_field(Some(self), field)

\* ------------------------------------------------------------------------
\* Octal fields (impl U64Ext for Option<u64> / u64)
\* ------------------------------------------------------------------------

\* `u64::from_str_radix(&octal, 8).map_err(..)` and `Ok(Some(num))`
OctalNumber(num) == IF num.ok THEN Ok(Some(num.val)) ELSE Err(InvalidOctal)

\* Option<u64>::from_octal_field, after trim_end.
OptU64_from_trimmed(octal) ==
    IF Len(octal) = 0 THEN Ok(None) ELSE OctalNumber(from_str_radix8(octal))

\* Option<u64>::from_octal_field, after from_terminated_field.
OptU64_from_string(string) ==
    IF string = None THEN Ok(None) ELSE OptU64_from_trimmed(trim_end(string[1]))

\* Option<u64>::from_octal_field
OptU64_from_octal_field(field) ==
    AndThen(OptString_from_terminated_field(field), OptU64_from_string)

\* Mutant of the padding: digits that do not fit lose their high end.
PadOctal_KeepLow(num, field) ==
    IF Len(num) > Len(field) - 1
    THEN SubSeq(num, Len(num) - Len(field) + 2, Len(num))
    ELSE Repeat(48, Len(field) - 1 - Len(num)) \o num

\* The digits left-padded with '0' to the field's length less one.
PadOctal(num, field) == Repeat(48, Max(Max(Len(field) - 1, 0) - Len(num), 0)) \o num

\* Option<u64>::into_octal_field
OptU64_into_octal_field(self, field) ==
    String_into_terminated_field(
        PadOctal(IF self = None THEN <<>> ELSE FormatOctal(self[1]), field), field)

\* u64::from_octal_field
U64_from_octal_field(field) == AndThen(OptU64_from_octal_field(field), OkOrRequired)

\* u64::into_octal_field
U64_into_octal_field(self, field) == OptU64_into_octal_field(Some(self), field)

\* ------------------------------------------------------------------------
\* Checksum
\* ------------------------------------------------------------------------

\* Mutant of Checksum::compute: the bytes after the checksum field are left out.
ChecksumBytes_NoTail(raw) == SubSeq(raw, 1, 148) \o Repeat(32, 8)

\* The bytes Checksum::compute adds up: the block with its checksum field as spaces.
ChecksumBytes(raw) == SubSeq(raw, 1, 148) \o Repeat(32, 8) \o SubSeq(raw, 157, Len(raw))

\* Mutant of Checksum::compute: the checksum field is summed as it is, not as spaces.
Checksum_compute_CountsField(tar) == U64FromNat(SumSeq(raw_header_into(tar)))

\* Checksum::compute
Checksum_compute(tar) == U64FromNat(SumSeq(ChecksumBytes(raw_header_into(tar))))

\* Checksum::verify
Checksum_verify(tar) ==
    AndThen(U64_from_octal_field(tar.checksum),
            LAMBDA stored : IF Checksum_compute(tar) = stored THEN Ok(<<>>)
                            ELSE Err(InvalidChecksum))

\* The outcome of the `expect` in Checksum::write: the header, or a panic.
Expect(tar, field) ==
    IF field.ok THEN [panic |-> FALSE, tar |-> [tar EXCEPT !.checksum = field.val]]
    ELSE [panic |-> TRUE, tar |-> tar]

\* Checksum::write
Checksum_write(tar) ==
    Expect(tar, U64_into_octal_field(Checksum_compute(tar), tar.checksum))

\* ------------------------------------------------------------------------
\* Header (src/src/header/mod.rs)
\* ------------------------------------------------------------------------

MkHeader(path, mode, uid, gid, size, mtime, typeflag, linkname) ==
    [path |-> path, mode |-> mode, uid |-> uid, gid |-> gid, size |-> size,
     mtime |-> mtime, typeflag |-> typeflag, linkname |-> linkname]

\* Header::parse after the empty-block test: the checksum, then the fields in order.
Header_parse_tar(tar) ==
    AndThen(Checksum_verify(tar), LAMBDA verified :
    AndThen(String_from_field(tar.name), LAMBDA path :
    AndThen(OptU64_from_octal_field(tar.mode), LAMBDA mode :
    AndThen(OptU64_from_octal_field(tar.uid), LAMBDA uid :
    AndThen(OptU64_from_octal_field(tar.gid), LAMBDA gid :
    AndThen(U64_from_octal_field(tar.size), LAMBDA size :
    AndThen(OptU64_from_octal_field(tar.mtime), LAMBDA mtime :
    AndThen(OptString_from_field(tar.linkname), LAMBDA linkname :
    Ok(MkHeader(path, mode, uid, gid, size, mtime, tar.typeflag[1], linkname))))))))))

\* Mutant of Header::parse: no test for the all-zero block.
Header_parse_NoEmptyCheck(data) == Header_parse_tar(raw_header_from(data))

\* Header::parse
Header_parse(data) ==
    IF data = raw_header_raw THEN Err(EmptyHeader)
    ELSE Header_parse_tar(raw_header_from(data))

\* The end of Header::serialize: the checksum written, the struct turned into a block.
Header_finish(written) ==
    IF written.panic THEN [ok |-> FALSE, val |-> <<>>, err |-> <<"panic">>]
    ELSE Ok(raw_header_into(written.tar))

\* Header::serialize: the fields in order into an all-zero header.
Header_serialize_into(self, tar) ==
    AndThen(String_into_field(self.path, tar.name), LAMBDA name :
    AndThen(OptU64_into_octal_field(self.mode, tar.mode), LAMBDA mode :
    AndThen(OptU64_into_octal_field(self.uid, tar.uid), LAMBDA uid :
    AndThen(OptU64_into_octal_field(self.gid, tar.gid), LAMBDA gid :
    AndThen(U64_into_octal_field(self.size, tar.size), LAMBDA size :
    AndThen(OptU64_into_octal_field(self.mtime, tar.mtime), LAMBDA mtime :
    AndThen(OptString_into_field(self.linkname, tar.linkname), LAMBDA linkname :
    Header_finish(Checksum_write(
        [tar EXCEPT !.name = name, !.mode = mode, !.uid = uid, !.gid = gid,
                    !.size = size, !.mtime = mtime, !.typeflag = <<self.typeflag>>,
                    !.linkname = linkname])))))))))

\* Header::serialize
Header_serialize(self) == Header_serialize_into(self, raw_header_header)

\* ------------------------------------------------------------------------
\* State
\* ------------------------------------------------------------------------

VARIABLES
    hpc,      \* header codec: "idle", "serialized" or "parsed"
    hdr,      \* the Header handed to Header::serialize
    ser,      \* the result of Header::serialize
    input,    \* the block handed to Header::parse
    flip,     \* the bit of the serialized block that was flipped: <<byte, bit>>
    parsed,   \* the result of Header::parse
    opc,      \* octal codec: "idle", "encoded" or "decoded"
    oval,     \* the u64 handed to into_octal_field
    ofield,   \* the result of into_octal_field, with the field's width
    odec,     \* the result of from_octal_field on the written field
    rcall,    \* try_read_exact: the call's state (off, len, cb, ret)
    rbuf,     \* the caller's buffer
    rpos,     \* the bytes consumed from the stream
    rlog,     \* each call and each read, in order: <<kind, offset of the slice, bytes>>
    wcall,    \* try_write_exact: the call's state (off, len, cb, ret)
    wsink,    \* the bytes the stream accepted
    wlog,     \* each call and each write, in order: <<kind, offset of the data, bytes>>
    apc,      \* archive: "writing", "reading", "done", "write_failed" or "read_failed"
    archive,  \* the bytes of the in-memory stream (a Cursor over a Vec<u8>)
    written,  \* the records written so far, each with the offset of its header block
    apos,     \* the position of the reading cursor
    got,      \* what read_next returned, call by call, up to the first failure
    nuls,     \* nul_block_counter of the reading loop
    cpc,      \* alignment helper: "idle" or "done"
    cnum,     \* the u64 handed to ceil_to_multiple_of
    cout,     \* what the call did: (panic, val)
    kpc,      \* checksum: "idle", "written" or "verified"
    kblock,   \* the block whose checksum is written
    kout,     \* the result of Checksum::write: (panic, tar)
    kver,     \* the result of Checksum::verify on the written header
    dpc,      \* try_drain: "idle" or "called"
    dreq,     \* the bytes the caller wants drained in all
    dcall,    \* the call's state (len, left, total, read, ret)
    dchunk,   \* the call of try_read_exact on the current chunk
    dpos,     \* the bytes consumed from the stream
    dbase,    \* the bytes consumed when the current call began
    dlast,    \* the last read: (kind, asked, remaining, n)
    dint,     \* the Interrupted answers so far
    dres      \* the calls made after a failed one

hvars == <<hpc, hdr, ser, input, flip, parsed>>

ovars == <<opc, oval, ofield, odec>>

rvars == <<rcall, rbuf, rpos, rlog>>

wvars == <<wcall, wsink, wlog>>

avars == <<apc, archive, written, apos, got, nuls>>

cvars == <<cpc, cnum, cout>>

kvars == <<kpc, kblock, kout, kver>>

dvars == <<dpc, dreq, dcall, dchunk, dpos, dbase, dlast, dint, dres>>

xvars == <<cvars, kvars, dvars>>

vars == <<hvars, ovars, rvars, wvars, avars, xvars>>

\* ------------------------------------------------------------------------
\* Inputs of the header codec
\* ------------------------------------------------------------------------

\* 8^7 - 1 and 8^11 - 1: the largest values of the fields of width 8 and 12.
Max7 == U64Pred(U64Pow8(7))

Max11 == U64Pred(U64Pow8(11))

Paths ==
    { <<>>,                                           \* ""
      <<97>>,                                         \* "a"
      <<102, 105, 108, 101, 46, 116, 120, 116>>,      \* "file.txt"
      <<97, 32, 98>>,                                 \* "a b"
      <<195, 169, 46, 226, 130, 172>>,                \* two multi-byte characters
      <<97, 0, 98>>,                                  \* an embedded NUL
      Repeat(97, 99), Repeat(97, 100), Repeat(97, 101) }

Linknames ==
    { None, Some(<<>>), Some(<<108>>), Some(<<108, 0, 109>>),
      Some(Repeat(108, 100)), Some(Repeat(108, 101)) }

Typeflags == {0, 48, 120, 255}

Opt7 == {None, Some(U64Zero), Some(Max7), Some(U64Pow8(7))}

Opt11 == {None, Some(U64Zero), Some(Max11), Some(U64Pow8(11))}

Sizes == {U64Zero, U64FromNat(1), Max11, U64Pow8(11), U64Max}

\* The numeric fields of the first record of tests/predefined.rs.
BaseNumbers ==
    [mode |-> Some(U64FromNat(420)), uid |-> Some(U64FromNat(501)),
     gid |-> Some(U64FromNat(20)), size |-> U64FromNat(9),
     mtime |-> Some(U64FromNat(1564767066))]

\* The base numbers, the base with one field replaced, all absent, all maximal.
NumberProfiles ==
    {BaseNumbers}
    \cup {[BaseNumbers EXCEPT !.mode = v] : v \in Opt7}
    \cup {[BaseNumbers EXCEPT !.uid = v] : v \in Opt7}
    \cup {[BaseNumbers EXCEPT !.gid = v] : v \in Opt7}
    \cup {[BaseNumbers EXCEPT !.size = v] : v \in Sizes}
    \cup {[BaseNumbers EXCEPT !.mtime = v] : v \in Opt11}
    \cup {[mode |-> None, uid |-> None, gid |-> None, size |-> U64Zero, mtime |-> None],
          [mode |-> Some(Max7), uid |-> Some(Max7), gid |-> Some(Max7), size |-> Max11,
           mtime |-> Some(Max11)]}

Headers ==
    { MkHeader(p, n.mode, n.uid, n.gid, n.size, n.mtime, t, l) :
        p \in Paths, n \in NumberProfiles, t \in Typeflags, l \in Linknames }

\* The headers whose serialized block is also parsed with each single bit flipped.
FlipHeaders ==
    { MkHeader(<<102, 105, 108, 101, 46, 116, 120, 116>>, BaseNumbers.mode, BaseNumbers.uid,
               BaseNumbers.gid, BaseNumbers.size, BaseNumbers.mtime, 48, None),
      MkHeader(Repeat(97, 100), Some(Max7), Some(Max7), Some(Max7), Max11, Some(Max11),
               255, Some(Repeat(108, 100))),
      MkHeader(<<97>>, None, None, None, U64Zero, None, 0, None) }

\* The all-zero block, and the all-zero block with one byte set.
RawBlocks ==
    {raw_header_raw}
    \cup { [raw_header_raw EXCEPT ![i] = v] : i \in 1..BLOCK_LEN, v \in {1, 32, 48, 128} }

\* x with bit b flipped.
XorBit(x, b) == IF (x \div 2^b) % 2 = 1 THEN x - 2^b ELSE x + 2^b

\* The block with bit b of byte i (1-based) flipped.
FlipBit(block, i, b) == [block EXCEPT ![i] = XorBit(@, b)]

\* ------------------------------------------------------------------------
\* The parts of the state a specification does not use
\* ------------------------------------------------------------------------

NoCall == [off |-> 0, len |-> 0, cb |-> <<>>, ret |-> "none"]

HOff ==
    /\ hpc = "off"
    /\ hdr = <<>>
    /\ ser = <<>>
    /\ input = <<>>
    /\ flip = <<>>
    /\ parsed = <<>>

OOff ==
    /\ opc = "off"
    /\ oval = U64Zero
    /\ ofield = <<>>
    /\ odec = <<>>

ROff ==
    /\ rcall = NoCall
    /\ rbuf = <<>>
    /\ rpos = 0
    /\ rlog = <<>>

WOff ==
    /\ wcall = NoCall
    /\ wsink = <<>>
    /\ wlog = <<>>

AOff ==
    /\ apc = "off"
    /\ archive = <<>>
    /\ written = <<>>
    /\ apos = 0
    /\ got = <<>>
    /\ nuls = 0

COff ==
    /\ cpc = "off"
    /\ cnum = U64Zero
    /\ cout = <<>>

KOff ==
    /\ kpc = "off"
    /\ kblock = <<>>
    /\ kout = <<>>
    /\ kver = <<>>

NoDrain == [len |-> 0, left |-> 0, total |-> 0, read |-> FALSE, ret |-> "none"]

NoRead == [kind |-> "none", asked |-> 0, remaining |-> 0, n |-> 0]

DOff ==
    /\ dpc = "off"
    /\ dreq = 0
    /\ dcall = NoDrain
    /\ dchunk = NoCall
    /\ dpos = 0
    /\ dbase = 0
    /\ dlast = NoRead
    /\ dint = 0
    /\ dres = 0

XOff == COff /\ KOff /\ DOff

\* ------------------------------------------------------------------------
\* Octal codec: actions
\* ------------------------------------------------------------------------

\* The numbers 0..MaxSmall are among the values encoded.
MaxSmall == 70

\* The largest k for which 8^k - 1, 8^k and 8^k + 1 are among the values encoded.
MaxPow == 12

OctalValues ==
    {U64FromNat(n) : n \in 0..MaxSmall}
    \cup {U64Pred(U64Pow8(k)) : k \in 1..MaxPow}
    \cup {U64Pow8(k) : k \in 1..MaxPow}
    \cup {U64MulAdd(U64Pow8(k), 1, 1).val : k \in 1..MaxPow}
    \cup {U64Pred(U64Pow8(21)), U64Pow8(21), U64Max}

\* The widths of the octal fields of the header, and what a field may hold before.
OctalWidths == {8, 12}

OctalFills == {0, 255}

OInit ==
    /\ opc = "idle"
    /\ oval = U64Zero
    /\ ofield = <<>>
    /\ odec = <<>>
    /\ HOff /\ ROff /\ WOff /\ AOff /\ XOff

\* u64::into_octal_field on a field of an octal width.
EncodeOctal ==
    /\ opc = "idle"
    /\ \E v \in OctalValues, w \in OctalWidths, fill \in OctalFills :
        /\ oval' = v
        /\ ofield' = U64_into_octal_field(v, Repeat(fill, w)) @@ [width |-> w]
    /\ opc' = "encoded"
    /\ UNCHANGED <<odec, hvars, rvars, wvars, avars, xvars>>

\* u64::from_octal_field on the field just written.
DecodeOctal ==
    /\ opc = "encoded"
    /\ ofield.ok
    /\ odec' = U64_from_octal_field(ofield.val)
    /\ opc' = "decoded"
    /\ UNCHANGED <<oval, ofield, hvars, rvars, wvars, avars, xvars>>

ONext == EncodeOctal \/ DecodeOctal

SpecOctal == OInit /\ [][ONext]_vars

\* ------------------------------------------------------------------------
\* Header codec: actions
\* ------------------------------------------------------------------------

HInit ==
    /\ hpc = "idle"
    /\ hdr = <<>>
    /\ ser = <<>>
    /\ input = <<>>
    /\ flip = <<>>
    /\ parsed = <<>>
    /\ OOff /\ ROff /\ WOff /\ AOff /\ XOff

\* A caller serializes a header.
Serialize ==
    /\ hpc = "idle"
    /\ \E h \in Headers :
        /\ hdr' = h
        /\ ser' = Header_serialize(h)
    /\ hpc' = "serialized"
    /\ UNCHANGED <<input, flip, parsed, ovars, rvars, wvars, avars, xvars>>

\* The serialized block is parsed back.
ParseSerialized ==
    /\ hpc = "serialized"
    /\ ser.ok
    /\ input' = ser.val
    /\ parsed' = Header_parse(input')
    /\ hpc' = "parsed"
    /\ UNCHANGED <<hdr, ser, flip, ovars, rvars, wvars, avars, xvars>>

\* The serialized block reaches the parser with one bit flipped.
ParseFlipped ==
    /\ hpc = "serialized"
    /\ ser.ok
    /\ hdr \in FlipHeaders
    /\ \E i \in 1..BLOCK_LEN, b \in 0..7 :
        /\ input' = FlipBit(ser.val, i, b)
        /\ flip' = <<i, b>>
    /\ parsed' = Header_parse(input')
    /\ hpc' = "parsed_flipped"
    /\ UNCHANGED <<hdr, ser, ovars, rvars, wvars, avars, xvars>>

\* A block that no serialize call produced is parsed.
ParseRaw ==
    /\ hpc = "idle"
    /\ \E block \in RawBlocks : input' = block
    /\ parsed' = Header_parse(input')
    /\ hpc' = "parsed_raw"
    /\ UNCHANGED <<hdr, ser, flip, ovars, rvars, wvars, avars, xvars>>

HNext == Serialize \/ ParseSerialized \/ ParseFlipped \/ ParseRaw

SpecHeader == HInit /\ [][HNext]_vars

\* ------------------------------------------------------------------------
\* Resumable I/O (src/src/helpers.rs)
\* ------------------------------------------------------------------------

\* The longest buffer a caller reads into or writes from.
MaxBuf == 4

\* How many times a stream answers Interrupted, and how often a caller calls again
\* after an error, in one behaviour.
MaxInterrupts == 2

MaxResumes == 2

\* The bytes of the stream, all different, and more of them than any buffer holds.
Source == [i \in 1..(MaxBuf + 1) |-> i]

\* The data a caller writes: n different bytes.
Data(n) == [i \in 1..n |-> 100 + i]

\* `while !buf.is_empty()`: the call returns Ok once nothing is left of the slice.
ExactLoop(call) ==
    IF call.ret = "running" /\ call.off = call.len THEN [call EXCEPT !.ret = "Ok"]
    ELSE call

\* Mutant of try_read_exact: pos_cb is also called, with 0, for an interrupted read.
try_read_exact_CountsInterrupts(call, res) ==
    IF ~res.ok /\ res.err = "Interrupted" THEN [call EXCEPT !.cb = Append(@, 0)]
    ELSE IF ~res.ok THEN [call EXCEPT !.ret = res.err]
    ELSE IF res.val = 0 THEN [call EXCEPT !.ret = "UnexpectedEof"]
    ELSE ExactLoop([call EXCEPT !.off = @ + res.val, !.cb = Append(@, res.val)])

\* Mutant of try_read_exact: every error is retried, as Interrupted is.
try_read_exact_RetriesErrors(call, res) ==
    IF ~res.ok THEN call
    ELSE IF res.val = 0 THEN [call EXCEPT !.ret = "UnexpectedEof"]
    ELSE ExactLoop([call EXCEPT !.off = @ + res.val, !.cb = Append(@, res.val)])

\* ReadExt::try_read_exact: the match on what `self.read(&mut buf)` answered. The
\* slice left of the buffer is buf[off..len]; cb holds the arguments of pos_cb.
try_read_exact(call, res) ==
    IF ~res.ok /\ res.err = "Interrupted" THEN call
    ELSE IF ~res.ok THEN [call EXCEPT !.ret = res.err]
    ELSE IF res.val = 0 THEN [call EXCEPT !.ret = "UnexpectedEof"]
    ELSE ExactLoop([call EXCEPT !.off = @ + res.val, !.cb = Append(@, res.val)])

\* Mutant of try_write_exact: a write of zero bytes is tried again.
try_write_exact_RetriesZero(call, res) ==
    IF ~res.ok /\ res.err = "Interrupted" THEN call
    ELSE IF ~res.ok THEN [call EXCEPT !.ret = res.err]
    ELSE IF res.val = 0 THEN call
    ELSE ExactLoop([call EXCEPT !.off = @ + res.val, !.cb = Append(@, res.val)])

\* WriteExt::try_write_exact: the match on what `self.write(&data)` answered.
try_write_exact(call, res) ==
    IF ~res.ok /\ res.err = "Interrupted" THEN call
    ELSE IF ~res.ok THEN [call EXCEPT !.ret = res.err]
    ELSE IF res.val = 0 THEN [call EXCEPT !.ret = "WriteZero"]
    ELSE ExactLoop([call EXCEPT !.off = @ + res.val, !.cb = Append(@, res.val)])

\* A call on buf[off..len] with the callback's earlier arguments cb.
NewCall(off, len, cb) == ExactLoop([off |-> off, len |-> len, cb |-> cb, ret |-> "running"])

Interrupts(log) == Cardinality({i \in 1..Len(log) : log[i][1] = "Interrupted"})

Calls(log) == Cardinality({i \in 1..Len(log) : log[i][1] = "call"})

\* ---- try_read_exact ----

RInit ==
    /\ rcall = NoCall
    /\ rbuf = <<>>
    /\ rpos = 0
    /\ rlog = <<>>
    /\ HOff /\ OOff /\ WOff /\ AOff /\ XOff

\* The caller makes a buffer of n bytes and calls try_read_exact on all of it.
ReadCall ==
    /\ rcall.ret = "none"
    /\ \E n \in 0..MaxBuf :
        /\ rbuf' = Repeat(0, n)
        /\ rcall' = NewCall(0, n, <<>>)
    /\ rlog' = Append(rlog, <<"call", 0, 0>>)
    /\ UNCHANGED <<rpos, hvars, ovars, wvars, avars, xvars>>

\* The read is interrupted: nothing is consumed.
ReadInterrupted ==
    /\ rcall.ret = "running"
    /\ Interrupts(rlog) < MaxInterrupts
    /\ rcall' = try_read_exact(rcall, Err("Interrupted"))
    /\ rlog' = Append(rlog, <<"Interrupted", rcall.off, 0>>)
    /\ UNCHANGED <<rbuf, rpos, hvars, ovars, wvars, avars, xvars>>

\* The read puts the next n bytes of the stream at the start of the slice.
ReadData ==
    /\ rcall.ret = "running"
    /\ \E n \in 1..Min(rcall.len - rcall.off, Len(Source) - rpos) :
        /\ rbuf' = [i \in 1..Len(rbuf) |->
                       IF i > rcall.off /\ i <= rcall.off + n
                       THEN Source[rpos + i - rcall.off] ELSE rbuf[i]]
        /\ rpos' = rpos + n
        /\ rcall' = try_read_exact(rcall, Ok(n))
        /\ rlog' = Append(rlog, <<"data", rcall.off, n>>)
    /\ UNCHANGED <<hvars, ovars, wvars, avars, xvars>>

\* The read answers Ok(0): the stream has nothing more for now.
ReadZero ==
    /\ rcall.ret = "running"
    /\ rcall' = try_read_exact(rcall, Ok(0))
    /\ rlog' = Append(rlog, <<"zero", rcall.off, 0>>)
    /\ UNCHANGED <<rbuf, rpos, hvars, ovars, wvars, avars, xvars>>

\* The read fails with an error that is not Interrupted: nothing is consumed.
ReadError ==
    /\ rcall.ret = "running"
    /\ rcall' = try_read_exact(rcall, Err("TimedOut"))
    /\ rlog' = Append(rlog, <<"error", rcall.off, 0>>)
    /\ UNCHANGED <<rbuf, rpos, hvars, ovars, wvars, avars, xvars>>

\* After an error the caller calls again on the tail of the buffer, from the offset
\* its callback has counted.
ReadResume ==
    /\ rcall.ret \notin {"none", "running", "Ok"}
    /\ Calls(rlog) <= MaxResumes
    /\ rcall' = NewCall(SumSeq(rcall.cb), rcall.len, rcall.cb)
    /\ rlog' = Append(rlog, <<"call", SumSeq(rcall.cb), 0>>)
    /\ UNCHANGED <<rbuf, rpos, hvars, ovars, wvars, avars, xvars>>

RNext == ReadCall \/ ReadInterrupted \/ ReadData \/ ReadZero \/ ReadError \/ ReadResume

SpecRead == RInit /\ [][RNext]_vars

\* ---- try_write_exact ----

WInit ==
    /\ wcall = NoCall
    /\ wsink = <<>>
    /\ wlog = <<>>
    /\ HOff /\ OOff /\ ROff /\ AOff /\ XOff

\* The caller calls try_write_exact on n bytes of data.
WriteCall ==
    /\ wcall.ret = "none"
    /\ \E n \in 0..MaxBuf : wcall' = NewCall(0, n, <<>>)
    /\ wlog' = Append(wlog, <<"call", 0, 0>>)
    /\ UNCHANGED <<wsink, hvars, ovars, rvars, avars, xvars>>

\* The write is interrupted: nothing is accepted.
WriteInterrupted ==
    /\ wcall.ret = "running"
    /\ Interrupts(wlog) < MaxInterrupts
    /\ wcall' = try_write_exact(wcall, Err("Interrupted"))
    /\ wlog' = Append(wlog, <<"Interrupted", wcall.off, 0>>)
    /\ UNCHANGED <<wsink, hvars, ovars, rvars, avars, xvars>>

\* The write accepts the first n bytes of the data it was handed.
WriteData ==
    /\ wcall.ret = "running"
    /\ \E n \in 1..(wcall.len - wcall.off) :
        /\ wsink' = wsink \o SubSeq(Data(wcall.len), wcall.off + 1, wcall.off + n)
        /\ wcall' = try_write_exact(wcall, Ok(n))
        /\ wlog' = Append(wlog, <<"data", wcall.off, n>>)
    /\ UNCHANGED <<hvars, ovars, rvars, avars, xvars>>

\* The write answers Ok(0).
WriteZero ==
    /\ wcall.ret = "running"
    /\ wcall' = try_write_exact(wcall, Ok(0))
    /\ wlog' = Append(wlog, <<"zero", wcall.off, 0>>)
    /\ UNCHANGED <<wsink, hvars, ovars, rvars, avars, xvars>>

\* The write fails with an error that is not Interrupted: nothing is accepted.
WriteError ==
    /\ wcall.ret = "running"
    /\ wcall' = try_write_exact(wcall, Err("TimedOut"))
    /\ wlog' = Append(wlog, <<"error", wcall.off, 0>>)
    /\ UNCHANGED <<wsink, hvars, ovars, rvars, avars, xvars>>

\* After an error the caller calls again on the rest of the data, from the offset
\* its callback has counted.
WriteResume ==
    /\ wcall.ret \notin {"none", "running", "Ok"}
    /\ Calls(wlog) <= MaxResumes
    /\ wcall' = NewCall(SumSeq(wcall.cb), wcall.len, wcall.cb)
    /\ wlog' = Append(wlog, <<"call", SumSeq(wcall.cb), 0>>)
    /\ UNCHANGED <<wsink, hvars, ovars, rvars, avars, xvars>>

WNext ==
    WriteCall \/ WriteInterrupted \/ WriteData \/ WriteZero \/ WriteError \/ WriteResume

SpecWrite == WInit /\ [][WNext]_vars

\* ------------------------------------------------------------------------
\* Records over an in-memory stream (tests/tar_record/mod.rs, tests/predefined.rs)
\* ------------------------------------------------------------------------

\* v modulo m, for 0 < m <= 2^15.
U64ModSmall(v, m) ==
    ((((((v[4] % m) * LimbBase + v[3]) % m) * LimbBase + v[2]) % m) * LimbBase + v[1]) % m

\* `*self + (num - r)`: the sum modulo 2^64, and whether the addition overflowed.
CeilSum(sum) == [val |-> sum.val, overflow |-> sum.carry # 0]

\* U64Ext::ceil_to_multiple_of
ceil_to_multiple_of(self, num) ==
    IF U64ModSmall(self, num) = 0 THEN [val |-> self, overflow |-> FALSE]
    ELSE CeilSum(U64MulAdd(self, 1, num - U64ModSmall(self, num)))

IoError(kind) == <<"Io", kind>>

\* `read_exact` on the cursor: the next n bytes, or UnexpectedEof when fewer are left.
Cursor_read_exact(stream, pos, n) ==
    IF Len(stream) - pos < n THEN Err(IoError("UnexpectedEof"))
    ELSE Ok(SubSeq(stream, pos + 1, pos + n))

\* What the cursor's `read` answers for a buffer of n bytes: all that is left, up to n.
Cursor_read(stream_len, pos, n) == Ok(Min(n, stream_len - pos))

\* The length of the scratch buffer of try_drain.
ChunkLen == 4096

\* Mutant of the chunk of try_drain: the whole scratch buffer, whatever is left.
DrainBufLen_Whole(len) == ChunkLen

\* `&mut [0; 4096][.. min(len, 4096)]`: the length of the chunk try_drain reads into.
DrainBufLen(len) == Min(len, ChunkLen)

\* One chunk of try_drain on the cursor: try_read_exact on the chunk's first read, and
\* when that leaves the chunk unfilled the cursor is at its end and the next read
\* answers Ok(0).
DrainChunk(call) ==
    IF call.ret = "running" THEN try_read_exact(call, Ok(0)) ELSE call

\* ReadExt::try_drain on the cursor: chunks of at most 4096 bytes, `len` lowered by
\* the callback. The result and the cursor's position after it.
RECURSIVE try_drain(_, _, _), DrainRest(_, _, _, _)
try_drain(stream_len, pos, len) ==
    IF len = 0 THEN [ret |-> "Ok", pos |-> pos]
    ELSE DrainRest(stream_len, pos, len,
             DrainChunk(try_read_exact(NewCall(0, DrainBufLen(len), <<>>),
                                       Cursor_read(stream_len, pos, DrainBufLen(len)))))

\* The `?` after a chunk of try_drain, and the next pass of its loop.
DrainRest(stream_len, pos, len, call) ==
    IF call.ret = "Ok"
    THEN try_drain(stream_len, pos + SumSeq(call.cb), len - SumSeq(call.cb))
    ELSE [ret |-> call.ret, pos |-> pos + SumSeq(call.cb)]

\* WriteExt::try_fill on the cursor, whose `write` takes all it is handed: chunks of at
\* most 4096 zero bytes, `len` lowered by the callback. The stream after it.
RECURSIVE try_fill(_, _)
try_fill(stream, len) ==
    IF len = 0 THEN stream
    ELSE try_fill(stream \o Repeat(0, Min(len, 4096)),
                  len - SumSeq(try_write_exact(NewCall(0, Min(len, 4096), <<>>),
                                               Ok(Min(len, 4096))).cb))

\* The padding after a payload of n bytes.
PaddingLen(n) ==
    U64ToNat(ceil_to_multiple_of(U64FromNat(n), BLOCK_LEN).val) - n

\* write_next: the stream after the header block, the payload and the padding.
write_next(header, payload, stream) ==
    AndThen(Header_serialize(header), LAMBDA header_raw :
        Ok(try_fill(stream \o header_raw \o payload, PaddingLen(Len(payload)))))

\* Whether a size is small enough to be a length here (below 2^30).
IsLength(size) == size[3] = 0 /\ size[4] = 0 /\ size[2] < 2^14

ReadResult(res, pos) == [res |-> res, pos |-> pos]

\* read_next, after the padding is drained.
read_next_drained(header, payload, drained) ==
    IF drained.ret = "Ok"
    THEN ReadResult(Ok([header |-> header, payload |-> payload]), drained.pos)
    ELSE ReadResult(Err(IoError(drained.ret)), drained.pos)

\* read_next, after the payload is read.
read_next_payload(stream, pos, header, payload_len, payload) ==
    IF ~payload.ok THEN ReadResult(Err(payload.err), pos)
    ELSE read_next_drained(header, payload.val,
             try_drain(Len(stream), pos + payload_len, PaddingLen(payload_len)))

\* read_next, after the header is parsed. A size that is no length here is more than
\* the stream holds.
read_next_parsed(stream, pos, header) ==
    IF ~header.ok THEN ReadResult(Err(header.err), pos)
    ELSE IF ~IsLength(header.val.size) THEN ReadResult(Err(IoError("UnexpectedEof")), pos)
    ELSE read_next_payload(stream, pos, header.val, U64ToNat(header.val.size),
             Cursor_read_exact(stream, pos, U64ToNat(header.val.size)))

\* read_next, after the header block is read.
read_next_header(stream, pos, header_raw) ==
    IF ~header_raw.ok THEN ReadResult(Err(header_raw.err), pos)
    ELSE read_next_parsed(stream, pos + BLOCK_LEN, Header_parse(header_raw.val))

\* read_next: the record or the error, and the cursor's position after the call.
read_next(stream, pos) ==
    read_next_header(stream, pos, Cursor_read_exact(stream, pos, BLOCK_LEN))

\* ---- inputs ----

\* The most records written to one archive.
MaxRecords == 2

PayloadLens == {0, 1, BLOCK_LEN - 1, BLOCK_LEN, BLOCK_LEN + 1}

\* The headers of the records, for a payload of n bytes: one with the numbers of the
\* first header of tests/predefined.rs, one with no optional value, one with an empty
\* path.
RecordHeaders(n) ==
    { MkHeader(<<102, 105, 108, 101, 46, 116, 120, 116>>, BaseNumbers.mode, BaseNumbers.uid,
               BaseNumbers.gid, U64FromNat(n), BaseNumbers.mtime, 48, None),
      MkHeader(<<97>>, None, None, None, U64FromNat(n), None, 0, None),
      MkHeader(<<>>, BaseNumbers.mode, BaseNumbers.uid, BaseNumbers.gid, U64FromNat(n),
               BaseNumbers.mtime, 48, None) }

\* Records with h.size = len(p); the payload's bytes tell the payloads apart.
RecordsOfLen(n) ==
    { [header |-> h, payload |-> Repeat(65 + Len(h.path), n)] : h \in RecordHeaders(n) }

Records == UNION { RecordsOfLen(n) : n \in PayloadLens }

\* A record whose header does not serialize: its path has 101 bytes.
UnwritableRecord ==
    [header |-> MkHeader(Repeat(97, 101), None, None, None, U64FromNat(1), None, 48, None),
     payload |-> <<66>>]

\* ---- actions ----

AInit ==
    /\ apc = "writing"
    /\ archive = <<>>
    /\ written = <<>>
    /\ apos = 0
    /\ got = <<>>
    /\ nuls = 0
    /\ HOff /\ OOff /\ ROff /\ WOff /\ XOff

\* TestVector::test_write, one record: write_next(..).unwrap()
WriteNext ==
    /\ apc = "writing"
    /\ Len(written) < MaxRecords
    /\ \E rec \in Records \cup {UnwritableRecord} :
        IF write_next(rec.header, rec.payload, archive).ok
        THEN /\ archive' = write_next(rec.header, rec.payload, archive).val
             /\ written' = Append(written, [header |-> rec.header, payload |-> rec.payload,
                                            offset |-> Len(archive)])
             /\ apc' = apc
        ELSE /\ apc' = "write_failed"
             /\ UNCHANGED <<archive, written>>
    /\ UNCHANGED <<apos, got, nuls, hvars, ovars, rvars, wvars, xvars>>

\* TestVector::test_write, the end of the archive: try_fill(BLOCK_LEN * 2, ..)
WriteEnd ==
    /\ apc = "writing"
    /\ archive' = try_fill(archive, BLOCK_LEN * 2)
    /\ apc' = "reading"
    /\ UNCHANGED <<written, apos, got, nuls, hvars, ovars, rvars, wvars, xvars>>

\* One pass of the loop of TestVector::test_read, given what read_next returned.
ReadNextResult(r) ==
    /\ apos' = r.pos
    /\ got' = Append(got, r.res)
    /\ IF r.res.ok THEN nuls' = 0 /\ apc' = apc
       ELSE IF r.res.err = EmptyHeader
       THEN nuls' = nuls + 1 /\ apc' = IF nuls + 1 < 2 THEN apc ELSE "done"
       ELSE nuls' = nuls /\ apc' = "read_failed"

\* TestVector::test_read: one call of read_next.
ReadNext ==
    /\ apc = "reading"
    /\ ReadNextResult(read_next(archive, apos))
    /\ UNCHANGED <<archive, written, hvars, ovars, rvars, wvars, xvars>>

ANext == WriteNext \/ WriteEnd \/ ReadNext

SpecRecord == AInit /\ [][ANext]_vars

\* ------------------------------------------------------------------------
\* Alignment helper: actions (src/src/helpers.rs, impl U64Ext for u64)
\* ------------------------------------------------------------------------

\* The byte counts 0..MaxCount are among the values aligned.
MaxCount == 1030

\* 2^64 - k.
U64FromEnd(k) == <<LimbBase - k, LimbBase - 1, LimbBase - 1, LimbBase - 1>>

\* Small counts, counts around 2^16, 2^31 and 2^32, and counts at the end of u64.
CeilValues ==
    {U64FromNat(n) : n \in 0..MaxCount}
    \cup {<<LimbBase - 1, 0, 0, 0>>, <<0, 1, 0, 0>>, <<1, 1, 0, 0>>,
          <<LimbBase - 1, LimbBase \div 2 - 1, 0, 0>>, <<0, LimbBase \div 2, 0, 0>>,
          <<LimbBase - 1, LimbBase - 1, 0, 0>>, <<0, 0, 1, 0>>, <<1, 0, 1, 0>>}
    \cup {U64FromEnd(k) : k \in {1, 2, 255, 511, 512, 513, 1024, 1025}}

\* The program is built with or without overflow checks.
Builds == {"overflow-checks", "wrapping"}

\* What the call does in a build: `*self + (num - r)` panics on overflow where
\* overflow is checked, and wraps where it is not.
CeilOutcome(r, build) ==
    IF r.overflow /\ build = "overflow-checks" THEN [panic |-> TRUE, val |-> U64Zero]
    ELSE [panic |-> FALSE, val |-> r.val]

CInit ==
    /\ cpc = "idle"
    /\ cnum = U64Zero
    /\ cout = <<>>
    /\ HOff /\ OOff /\ ROff /\ WOff /\ AOff /\ KOff /\ DOff

\* n.ceil_to_multiple_of(BLOCK_LEN as u64)
Ceil ==
    /\ cpc = "idle"
    /\ \E n \in CeilValues, build \in Builds :
        /\ cnum' = n
        /\ cout' = CeilOutcome(ceil_to_multiple_of(n, BLOCK_LEN), build)
    /\ cpc' = "done"
    /\ UNCHANGED <<hvars, ovars, rvars, wvars, avars, kvars, dvars>>

CNext == Ceil

SpecCeil == CInit /\ [][CNext]_vars

\* ------------------------------------------------------------------------
\* Checksum: actions (src/src/header/raw.rs, impl Checksum)
\* ------------------------------------------------------------------------

\* The largest byte.
MaxByte == 255

\* Offsets (1-based) at the edges of the fields around the checksum field and of the
\* block.
EdgeOffsets == {1, 100, 148, 149, 152, 156, 157, 158, BLOCK_LEN}

\* Blocks of one byte repeated, and the all-zero and all-MaxByte blocks with one byte
\* at an edge replaced.
KBlocks ==
    {Repeat(v, BLOCK_LEN) : v \in 0..MaxByte}
    \cup {[Repeat(MaxByte, BLOCK_LEN) EXCEPT ![i] = v] : i \in EdgeOffsets, v \in {0, 32, 55}}
    \cup {[raw_header_raw EXCEPT ![i] = v] : i \in EdgeOffsets, v \in {1, 32, MaxByte}}

KInit ==
    /\ kpc = "idle"
    /\ kblock = <<>>
    /\ kout = <<>>
    /\ kver = <<>>
    /\ HOff /\ OOff /\ ROff /\ WOff /\ AOff /\ COff /\ DOff

\* Checksum::write(&mut tar) on the header over a block
ChecksumWrite ==
    /\ kpc = "idle"
    /\ \E block \in KBlocks :
        /\ kblock' = block
        /\ kout' = Checksum_write(raw_header_from(block))
    /\ kpc' = "written"
    /\ UNCHANGED <<kver, hvars, ovars, rvars, wvars, avars, cvars, dvars>>

\* Checksum::verify(&tar) on the header Checksum::write left
ChecksumVerify ==
    /\ kpc = "written"
    /\ ~kout.panic
    /\ kver' = Checksum_verify(kout.tar)
    /\ kpc' = "verified"
    /\ UNCHANGED <<kblock, kout, hvars, ovars, rvars, wvars, avars, cvars, dvars>>

KNext == ChecksumWrite \/ ChecksumVerify

SpecChecksum == KInit /\ [][KNext]_vars

\* ------------------------------------------------------------------------
\* try_drain over any stream: actions (src/src/helpers.rs, ReadExt::try_drain)
\* ------------------------------------------------------------------------

\* The lengths drained: none, a few bytes, and lengths around one and two chunks.
DrainLens == {0, 1, 2, 3, ChunkLen - 1, ChunkLen, ChunkLen + 1, 2 * ChunkLen + 1}

\* What a stream may answer a read of `asked` bytes with: all of them, all but one, or
\* half of them.
ReadSizes(asked) == {(asked + 1) \div 2, asked - 1, asked} \cap (1..asked)

\* `while len > 0`: the call returns Ok once nothing is left to drain.
DrainLoop(call) ==
    IF call.ret = "running" /\ call.left <= 0 THEN [call EXCEPT !.ret = "Ok"] ELSE call

\* A call of try_drain(len, pos_cb).
NewDrain(len) ==
    DrainLoop([len |-> len, left |-> len, total |-> 0, read |-> FALSE, ret |-> "running"])

\* The chunk a pass of the loop hands to try_read_exact, when there is a pass.
NewChunk(call) ==
    IF call.ret = "running" THEN NewCall(0, DrainBufLen(call.left), <<>>) ELSE NoCall

\* The closure handed to try_read_exact: `len -= read; pos_cb(read)`.
DrainCallback(call, n) == [call EXCEPT !.left = @ - n, !.total = @ + n]

\* The `?` on what try_read_exact returned for the chunk, and the loop's next test.
DrainAfter(call, chunk) ==
    IF chunk.ret = "running" THEN call
    ELSE IF chunk.ret = "Ok" THEN DrainLoop(call)
    ELSE [call EXCEPT !.ret = chunk.ret]

\* The chunk after a read: the one being filled, or the next pass's.
ChunkAfter(call, chunk) ==
    IF chunk.ret = "Ok" /\ call.ret = "running" THEN NewChunk(call) ELSE chunk

\* A read of the stream on behalf of the call: what was asked and what was left of len.
ReadOf(kind, n) ==
    [kind |-> kind, asked |-> dchunk.len - dchunk.off,
     remaining |-> dcall.len - (dpos - dbase), n |-> n]

DInit ==
    /\ dpc = "idle"
    /\ dreq = 0
    /\ dcall = NoDrain
    /\ dchunk = NoCall
    /\ dpos = 0
    /\ dbase = 0
    /\ dlast = NoRead
    /\ dint = 0
    /\ dres = 0
    /\ HOff /\ OOff /\ ROff /\ WOff /\ AOff /\ COff /\ KOff

\* The entry of try_drain(len, ..).
DrainEnter(len) ==
    /\ dcall' = NewDrain(len)
    /\ dchunk' = NewChunk(NewDrain(len))
    /\ dbase' = dpos
    /\ dlast' = NoRead
    /\ UNCHANGED <<dpos, dint, hvars, ovars, rvars, wvars, avars, cvars, kvars>>

\* stream.try_drain(len, pos_cb)
DrainCall ==
    /\ dpc = "idle"
    /\ dpc' = "called"
    /\ \E len \in DrainLens : dreq' = len /\ DrainEnter(len)
    /\ dres' = dres

\* The chunk's try_read_exact has returned what it returns for this answer.
DrainRead(chunk, n) ==
    /\ dcall.ret = "running"
    /\ dchunk' = ChunkAfter(DrainAfter(DrainCallback(dcall, n), chunk), chunk)
    /\ dcall' = [DrainAfter(DrainCallback(dcall, n), chunk) EXCEPT !.read = TRUE]
    /\ dpos' = dpos + n
    /\ UNCHANGED <<dpc, dreq, dbase, dres, hvars, ovars, rvars, wvars, avars, cvars, kvars>>

\* self.read(&mut buf) answers Err(Interrupted)
DrainInterrupted ==
    /\ dpc = "called"
    /\ dint < MaxInterrupts
    /\ DrainRead(try_read_exact(dchunk, Err("Interrupted")), 0)
    /\ dlast' = ReadOf("Interrupted", 0)
    /\ dint' = dint + 1

\* self.read(&mut buf) answers Ok(n), 0 < n <= buf.len()
DrainData ==
    /\ dpc = "called"
    /\ dcall.ret = "running"
    /\ \E n \in ReadSizes(dchunk.len - dchunk.off) :
        /\ DrainRead(try_read_exact(dchunk, Ok(n)), n)
        /\ dlast' = ReadOf("data", n)
    /\ dint' = dint

\* self.read(&mut buf) answers Ok(0)
DrainZero ==
    /\ dpc = "called"
    /\ DrainRead(try_read_exact(dchunk, Ok(0)), 0)
    /\ dlast' = ReadOf("zero", 0)
    /\ dint' = dint

\* self.read(&mut buf) answers Err(TimedOut)
DrainError ==
    /\ dpc = "called"
    /\ DrainRead(try_read_exact(dchunk, Err("TimedOut")), 0)
    /\ dlast' = ReadOf("error", 0)
    /\ dint' = dint

\* The caller, after an error, drains what the callback has not reported yet.
DrainResume ==
    /\ dpc = "called"
    /\ dcall.ret \notin {"running", "Ok"}
    /\ dres < MaxResumes
    /\ DrainEnter(dcall.len - dcall.total)
    /\ dres' = dres + 1
    /\ UNCHANGED <<dpc, dreq>>

DNext ==
    DrainCall \/ DrainInterrupted \/ DrainData \/ DrainZero \/ DrainError \/ DrainResume

SpecDrain == DInit /\ [][DNext]_vars

\* ------------------------------------------------------------------------
\* Header codec: properties
\* ------------------------------------------------------------------------

Fits7(opt) == opt = None \/ U64Less(opt[1], U64Pow8(7))

Fits11(opt) == opt = None \/ U64Less(opt[1], U64Pow8(11))

FitsString(opt) == opt = None \/ Len(opt[1]) <= 100

\* The header's values fit the byte widths of their fields.
Fits(h) ==
    /\ Len(h.path) <= 100
    /\ FitsString(h.linkname)
    /\ Fits7(h.mode) /\ Fits7(h.uid) /\ Fits7(h.gid)
    /\ Fits11(Some(h.size)) /\ Fits11(h.mtime)

Serialized == hpc \in {"serialized", "parsed", "parsed_flipped"}

Parsed == hpc \in {"parsed", "parsed_flipped", "parsed_raw"}

\* C1 (as claimed): every header that fits its fields serializes, and the block parses
\* back to a header equal to it in every field.
C1_RoundTrip ==
    (Serialized /\ Fits(hdr)) =>
        /\ ser.ok
        /\ (hpc = "parsed" => parsed.ok /\ parsed.val = hdr)

\* The part of C1 the code keeps: a header that fits, whose path and link name are
\* non-empty and hold no NUL and whose numbers are all present, parses back equal.
RoundTripWhenPresent ==
    (hpc = "parsed" /\ Fits(hdr)
        /\ hdr.path # <<>> /\ (\A i \in 1..Len(hdr.path) : hdr.path[i] # 0)
        /\ hdr.mode # None /\ hdr.uid # None /\ hdr.gid # None /\ hdr.mtime # None
        /\ (hdr.linkname # None =>
               hdr.linkname[1] # <<>>
               /\ \A i \in 1..Len(hdr.linkname[1]) : hdr.linkname[1][i] # 0))
    => parsed.ok /\ parsed.val = hdr

C3_EmptyHeaderIffZeroBlock ==
    Parsed => ((~parsed.ok /\ parsed.err = EmptyHeader) <=> (input = raw_header_raw))

\* C3 witness: the all-zero block was parsed and answered EmptyHeader.
C3_Witness ==
    hpc = "parsed_raw" /\ input = raw_header_raw /\ ~parsed.ok /\ parsed.err = EmptyHeader

\* C4 (as claimed): serialize fails whenever the path is empty.
C4_EmptyPathRejected ==
    (Serialized /\ hdr.path = <<>>) => ~ser.ok

\* The bytes of a string field of a block: the value, then NUL to the field's end.
FieldHolds(block, offset, string) ==
    \A i \in 1..100 : block[offset + i] = IF i <= Len(string) THEN string[i] ELSE 0

OptValue(opt) == IF opt = None THEN <<>> ELSE opt[1]

\* C5: a path or link name over 100 bytes fails with ApiMisuse; when every value fits,
\* serialize succeeds (100 bytes included); on success each string field holds its
\* value followed by NUL bytes only, so a 100-byte value ends the field unterminated.
C5_OversizedStringRejected ==
    Serialized =>
        /\ (Len(hdr.path) > 100 \/ ~FitsString(hdr.linkname)) =>
               ~ser.ok /\ ser.err = FieldTooSmall
        /\ Fits(hdr) => ser.ok
        /\ ser.ok => /\ FieldHolds(ser.val, 0, hdr.path)
                     /\ FieldHolds(ser.val, 157, OptValue(hdr.linkname))

\* C5 witness: a 100-byte path with a 101-byte link name was rejected.
C5_Witness ==
    /\ hpc = "serialized"
    /\ Len(hdr.path) = 100 /\ Len(OptValue(hdr.linkname)) = 101
    /\ Fits7(hdr.mode) /\ Fits7(hdr.uid) /\ Fits7(hdr.gid)
    /\ Fits11(Some(hdr.size)) /\ Fits11(hdr.mtime)
    /\ ~ser.ok /\ ser.err = FieldTooSmall

\* ------------------------------------------------------------------------
\* Octal codec: properties
\* ------------------------------------------------------------------------

IsData(entry) == entry[1] = "data"

\* The byte counts of the successful reads or writes of a log, in order.
DataLens(log) ==
    LET data == SelectSeq(log, IsData)
    IN  [i \in 1..Len(data) |-> data[i][3]]

Failed(ret) == ret \notin {"none", "running", "Ok"}

HasKind(log, kinds) == \E i \in 1..Len(log) : log[i][1] \in kinds

\* Entry i of the log ended its call: the call returned `ret` and nothing was read or
\* written after it before the next call.
EndsCall(log, i, call, ret) ==
    IF i = Len(log) THEN call.ret = ret ELSE log[i + 1][1] = "call"

\* C7: with short reads and interruptions only, the call returns Ok exactly when the
\* buffer is full, and then holds the next N bytes of the stream in order; pos_cb is
\* called once per successful read with its count, never for an interrupted one, and
\* its total is the number of bytes consumed.
C7_ResumableRead ==
    /\ rcall.cb = DataLens(rlog)
    /\ SumSeq(rcall.cb) = rpos
    /\ (Calls(rlog) = 1 /\ ~HasKind(rlog, {"zero", "error"})) =>
           /\ rcall.ret \in {"running", "Ok"}
           /\ (rcall.ret = "Ok" <=> rpos = rcall.len)
           /\ (rcall.ret = "Ok" => rbuf = SubSeq(Source, 1, rcall.len))

\* C7 witness: a full buffer was read in several reads, one interrupted mid-read.
C7_Witness ==
    /\ rcall.ret = "Ok" /\ Calls(rlog) = 1 /\ rcall.len = MaxBuf
    /\ Len(rcall.cb) >= 2
    /\ \E i \in 1..Len(rlog) : rlog[i][1] = "Interrupted" /\ rlog[i][2] > 0

\* C8: an error that is not Interrupted, or a read of zero bytes, ends the call at once
\* with that error; the k bytes consumed are the first k of the buffer and the total
\* of pos_cb; a later call on the tail from offset k that succeeds leaves the buffer
\* equal to the N consecutive bytes of the stream.
C8_ProgressKeptOnError ==
    /\ \A i \in 1..Len(rlog) :
           /\ rlog[i][1] = "zero" => EndsCall(rlog, i, rcall, "UnexpectedEof")
           /\ rlog[i][1] = "error" => EndsCall(rlog, i, rcall, "TimedOut")
    /\ Failed(rcall.ret) =>
           /\ SubSeq(rbuf, 1, rpos) = SubSeq(Source, 1, rpos)
           /\ SumSeq(rcall.cb) = rpos
           /\ rlog[Len(rlog)][2] = rpos
    /\ (rcall.ret = "Ok" /\ Calls(rlog) > 1) =>
           /\ rpos = rcall.len
           /\ rbuf = SubSeq(Source, 1, rcall.len)

\* C8 witness: a call failed after some bytes, and the call on the tail succeeded.
C8_Witness ==
    /\ rcall.ret = "Ok" /\ Calls(rlog) > 1 /\ rcall.len = MaxBuf
    /\ \E i \in 1..Len(rlog) : rlog[i][1] \in {"zero", "error"} /\ rlog[i][2] > 0

\* C9: a write of zero bytes ends the call with WriteZero and any error but
\* Interrupted ends it with that error; an interrupted write is followed by a write
\* of the same remaining data; pos_cb is called once per successful write with its
\* count, so its total is the number of bytes the stream accepted; on Ok the stream
\* accepted exactly the data.
C9_ExactWrite ==
    /\ \A i \in 1..Len(wlog) :
           /\ wlog[i][1] = "zero" => EndsCall(wlog, i, wcall, "WriteZero")
           /\ wlog[i][1] = "error" => EndsCall(wlog, i, wcall, "TimedOut")
           /\ wlog[i][1] = "Interrupted" =>
                  IF i = Len(wlog) THEN wcall.ret = "running" /\ wcall.off = wlog[i][2]
                  ELSE wlog[i + 1][1] # "call" /\ wlog[i + 1][2] = wlog[i][2]
    /\ wcall.cb = DataLens(wlog)
    /\ SumSeq(wcall.cb) = Len(wsink)
    /\ wsink = SubSeq(Data(wcall.len), 1, Len(wsink))
    /\ wcall.ret = "Ok" => wsink = Data(wcall.len)

\* C9 witness: a call met an interruption and a zero write after some bytes, and the
\* call on the rest of the data succeeded.
C9_Witness ==
    /\ wcall.ret = "Ok" /\ wcall.len = MaxBuf
    /\ \E i \in 1..Len(wlog) : wlog[i][1] = "Interrupted" /\ wlog[i][2] > 0
    /\ \E i \in 1..Len(wlog) : wlog[i][1] = "zero" /\ wlog[i][2] > 0

\* ------------------------------------------------------------------------
\* Records: properties
\* ------------------------------------------------------------------------

\* The archive is complete: the two blocks of its end are written.
Finished == apc \in {"reading", "done", "read_failed"}

\* Every header block starts at a multiple of BLOCK_LEN, and so does the end of a
\* finished archive.
Aligned ==
    /\ \A i \in 1..Len(written) : written[i].offset % BLOCK_LEN = 0
    /\ Finished => Len(archive) % BLOCK_LEN = 0

\* The j-th read_next returned the j-th record written: its payload and its size.
ReturnsRecord(j) ==
    /\ got[j].ok
    /\ got[j].val.payload = written[j].payload
    /\ got[j].val.header.size = U64FromNat(Len(written[j].payload))

\* The j-th read_next yielded EmptyHeader.
ReturnsEmptyHeader(j) == ~got[j].ok /\ got[j].err = EmptyHeader

\* The calls of read_next so far returned the records in the order written, and
\* after them EmptyHeader.
ReadInOrder ==
    /\ apc # "read_failed"
    /\ \A j \in 1..Len(got) :
           IF j <= Len(written) THEN ReturnsRecord(j) ELSE ReturnsEmptyHeader(j)
    /\ apc = "done" => Len(got) = Len(written) + 2

\* C10: records written in order with write_next and followed by try_fill(2 * 512)
\* have every header block at a multiple of 512 and a total length that is a multiple
\* of 512; repeated read_next returns the records in the same order, with the payload
\* and the size written, and then EmptyHeader for each of the two trailing zero blocks.
C10_RecordFraming == Aligned /\ ReadInOrder

\* Every record written has a path that is not empty.
PathsPresent == \A i \in 1..Len(written) : written[i].header.path # <<>>

\* The framing of C10 for archives whose records all have a path.
FramingWhenPathsPresent == Aligned /\ (PathsPresent => ReadInOrder)

\* Two records with paths and payloads of 513 and 511 bytes were written, read back,
\* and the end of the archive was read.
FramingWitness ==
    /\ apc = "done" /\ PathsPresent /\ Len(written) = MaxRecords
    /\ Len(written[1].payload) = BLOCK_LEN + 1
    /\ Len(written[MaxRecords].payload) = BLOCK_LEN - 1

\* ------------------------------------------------------------------------
\* Alignment helper: properties
\* ------------------------------------------------------------------------

\* out is the smallest multiple of BLOCK_LEN that is >= n: a multiple, and n plus a
\* padding in 0..BLOCK_LEN-1 that does not leave u64.
SmallestMultiple(n, out) ==
    /\ U64ModSmall(out, BLOCK_LEN) = 0
    /\ \E k \in 0..(BLOCK_LEN - 1) : U64MulAdd(n, 1, k) = [val |-> out, carry |-> 0]

\* The call returned the smallest multiple of BLOCK_LEN that is >= cnum.
CeilCorrect == ~cout.panic /\ SmallestMultiple(cnum, cout.val)

\* C11: for every u64 n, n.ceil_to_multiple_of(512) is the smallest multiple of 512
\* that is >= n, with a padding in 0..511: 0 -> 0, 1 -> 512, 512 -> 512, 513 -> 1024.
C11_CeilIsSmallestMultiple ==
    cpc = "done" =>
        /\ CeilCorrect
        /\ cnum = U64FromNat(0) => cout.val = U64FromNat(0)
        /\ cnum = U64FromNat(1) => cout.val = U64FromNat(512)
        /\ cnum = U64FromNat(512) => cout.val = U64FromNat(512)
        /\ cnum = U64FromNat(513) => cout.val = U64FromNat(1024)

\* Some multiple of BLOCK_LEN that is >= n is a u64: n <= 2^64 - BLOCK_LEN.
HasMultiple(n) == ~U64Less(U64FromEnd(BLOCK_LEN), n)

\* The alignment is right for every n that has a multiple of BLOCK_LEN above it in
\* u64, and only for those.
CeilCorrectWhenRepresentable == cpc = "done" => (CeilCorrect <=> HasMultiple(cnum))

\* An unaligned count near 2^32 was aligned.
CeilWitness == cpc = "done" /\ cnum = <<1, 0, 1, 0>> /\ cout.val = <<BLOCK_LEN, 0, 1, 0>>

\* ------------------------------------------------------------------------
\* Checksum: properties
\* ------------------------------------------------------------------------

\* The sum of the block's bytes with the 8 bytes of the checksum field as 0x20 each.
FieldAsSpacesSum(block) ==
    SumSeq(block) - SumRange(block, 149, 156) + 8 * 32

\* The checksum field holds the 7 octal digits of the number n, and a NUL.
HoldsOctal7(field, n) ==
    /\ Len(field) = 8
    /\ field[8] = 0
    /\ \A i \in 1..7 : field[i] = 48 + ((n \div (8 ^ (7 - i))) % 8)

\* C12: for every content of a 512-byte block, Checksum::compute, the sum of all bytes
\* with the checksum field counted as 8 spaces, is at most 504*255 + 8*32 = 128776 and
\* fits the 7 octal digits of the checksum field, so the expect() of Checksum::write
\* never panics; and after Checksum::write the block passes Checksum::verify.
C12_ChecksumWriteNeverFails ==
    /\ kpc \in {"written", "verified"} =>
           /\ ~kout.panic
           /\ Checksum_compute(raw_header_from(kblock)) = U64FromNat(FieldAsSpacesSum(kblock))
           /\ FieldAsSpacesSum(kblock) <= 504 * 255 + 8 * 32
           /\ FieldAsSpacesSum(kblock) < 8 ^ 7
           /\ HoldsOctal7(kout.tar.checksum, FieldAsSpacesSum(kblock))
           /\ [kout.tar EXCEPT !.checksum = kblock[149]] =
                  [raw_header_from(kblock) EXCEPT !.checksum = kblock[149]]
    /\ kpc = "verified" => kver.ok

\* C12 witness: the block with the largest sum, 128776, had its checksum written and
\* verified.
C12_Witness ==
    /\ kpc = "verified" /\ kver.ok
    /\ kblock = Repeat(MaxByte, BLOCK_LEN)
    /\ FieldAsSpacesSum(kblock) = 128776

\* ------------------------------------------------------------------------
\* try_drain: properties
\* ------------------------------------------------------------------------

\* The bytes the current call of try_drain has consumed from the stream.
Drained == dpos - dbase

\* C13: every read of try_drain(len) asks for at most min(remaining, 4096) bytes, where
\* remaining is len minus what this call has consumed, so no byte beyond the first len
\* is consumed; on Ok exactly len bytes were consumed and the callback total is len; on
\* an error the callback total is what was consumed, so try_drain(len - total) resumes
\* at the right position; try_drain(0) makes no read.
C13_DrainNeverOverReads ==
    dpc = "called" =>
        /\ dlast.kind # "none" =>
               /\ dlast.asked <= Min(dlast.remaining, 4096)
               /\ dlast.n <= dlast.asked
        /\ Drained <= dcall.len
        /\ dcall.ret = "Ok" => Drained = dcall.len /\ dcall.total = dcall.len
        /\ dcall.ret \notin {"running", "Ok"} => dcall.total = Drained
        /\ dbase + dcall.len = dreq
        /\ dcall.ret = "Ok" => dpos = dreq
        /\ dcall.len = 0 => ~dcall.read /\ dcall.ret = "Ok"

\* C13 witness: a drain of more than two chunks met an interruption, failed after some
\* bytes, and the call for the rest returned Ok after a read of a whole chunk.
C13_Witness ==
    /\ dpc = "called" /\ dcall.ret = "Ok"
    /\ dreq = 2 * ChunkLen + 1 /\ dpos = dreq
    /\ dres > 0 /\ dbase > 0 /\ dint > 0
    /\ dcall.len > ChunkLen

====
